---- MODULE Spec2Model ----
(***************************************************************************)
(* ProjectForge backend: the FastAPI glue service of backend/main.py (four *)
(* routes: /validate, /roadmap, /suggest, /viva) and its earlier variant   *)
(* backend/check_models.py (one route: /validate).                         *)
(*                                                                         *)
(* Text is a sequence of one-character strings.  A JSON value is a record  *)
(* tagged by t: null, number, string, array (items) or object (members, a  *)
(* function from key to JSON value).  A Python exception is the tagged     *)
(* record Raised, so that every operator computes either a value or the    *)
(* exception the code would throw at that point.                           *)
(***************************************************************************)
EXTENDS Integers, Sequences, FiniteSets, TLC

VARIABLES
    program,            \* which module the process runs: "main" | "check_models"
    pc,                 \* "startup", "loaded" (module body done), "serving" (idle),
                        \* "responded" (a response is on its way out); "crashed"
    GEMINI_API_KEY,     \* TRUE when the model credential is set
    GOOGLE_SEARCH_KEY,  \* TRUE when the search credential is set
    MOCK_MODE,          \* the module-level degraded flag
    MODEL_NAME,         \* the selected model name ("None" when unset)
    model,              \* "bound" once model = genai.GenerativeModel(...) ran, else "unbound"
    startup,            \* what the loader met: the outcomes of configure / list_models / GenerativeModel
    req,                \* the request in flight: route, inputs met, outbound calls, response
    text,               \* fence-stripping harness: the input string
    cleaned,            \* fence-stripping harness: clean_json(text), clean_json_response(text)
    phase               \* fence-stripping harness: "typing" | "cleaned"

vars == << program, pc, GEMINI_API_KEY, GOOGLE_SEARCH_KEY, MOCK_MODE, MODEL_NAME,
           model, startup, req, text, cleaned, phase >>

serviceVars == << program, pc, GEMINI_API_KEY, GOOGLE_SEARCH_KEY, MOCK_MODE,
                  MODEL_NAME, model, startup, req >>

cleanVars == << text, cleaned, phase >>

(***************************************************************************)
(* Bounds of the model.                                                    *)
(***************************************************************************)
\* longest input string of the fence-stripping harness
MaxLen == 10
\* most result items a web search response carries
MaxItems == 5
\* most result items one video search response carries
MaxVideos == 3
\* most entries of the "stack" list a model response carries
MaxStack == 3
\* most models a list_models answer carries
MaxModels == 3

(***************************************************************************)
(* Strings                                                                 *)
(***************************************************************************)
\* the grave accent character U+0060, which a TLA+ string literal cannot hold
Tick == "<grave>"

\* the literal "```json" of clean_json
FenceJson == << Tick, Tick, Tick, "j", "s", "o", "n" >>

\* the literal "```" of clean_json
Fence == << Tick, Tick, Tick >>

IsSpace(c) == c \in {" ", "\n", "\t"}

\* str.replace(old, ""): the non-overlapping occurrences of old, found left to
\* right, are removed
RECURSIVE StrRemove(_, _)
StrRemove(s, old) ==
    IF Len(s) < Len(old) THEN s
    ELSE IF SubSeq(s, 1, Len(old)) = old
         THEN StrRemove(SubSeq(s, Len(old) + 1, Len(s)), old)
         ELSE << Head(s) >> \o StrRemove(Tail(s), old)

\* str.replace(old, "", 1): only the first occurrence is removed
RECURSIVE StrRemoveFirst(_, _)
StrRemoveFirst(s, old) ==
    IF Len(s) < Len(old) THEN s
    ELSE IF SubSeq(s, 1, Len(old)) = old
         THEN SubSeq(s, Len(old) + 1, Len(s))
         ELSE << Head(s) >> \o StrRemoveFirst(Tail(s), old)

RECURSIVE LStrip(_)
LStrip(s) == IF s # << >> /\ IsSpace(Head(s)) THEN LStrip(Tail(s)) ELSE s

RECURSIVE RStrip(_)
RStrip(s) ==
    IF s # << >> /\ IsSpace(s[Len(s)]) THEN RStrip(SubSeq(s, 1, Len(s) - 1)) ELSE s

\* str.strip()
Strip(s) == RStrip(LStrip(s))

\* old in s
Contains(s, old) ==
    \E i \in 1..(Len(s) - Len(old) + 1) : SubSeq(s, i, i + Len(old) - 1) = old

\* a bug of clean_json: each replace removes the first occurrence only
clean_json_first_only(txt) ==
    Strip(StrRemoveFirst(StrRemoveFirst(txt, FenceJson), Fence))

\* main.py: clean_json
clean_json(txt) == Strip(StrRemove(StrRemove(txt, FenceJson), Fence))

\* check_models.py: clean_json_response
clean_json_response(txt) == Strip(StrRemove(StrRemove(txt, FenceJson), Fence))

(***************************************************************************)
(* JSON values and the Python operations the handlers apply to them        *)
(***************************************************************************)
\* null, and Python's None
JNull == [t |-> "null"]

JNum(n) == [t |-> "number", n |-> n]

\* a string: its characters
JStr(s) == [t |-> "string", s |-> s]

JArr(items) == [t |-> "array", items |-> items]

JObj(members) == [t |-> "object", members |-> members]

\* {} : the object with no members
EmptyObj == JObj([k \in {} |-> JNull])

\* a raised exception, by its class name
Raised(e) == [t |-> "raised", exc |-> e]

IsRaised(v) == v.t = "raised"

\* key in d, for a dict d
HasKey(d, key) == d.t = "object" /\ key \in DOMAIN d.members

\* v.get(key, default): only a dict has the method
dict_get(v, key, default) ==
    IF v.t # "object" THEN Raised("AttributeError")
    ELSE IF key \in DOMAIN v.members THEN v.members[key] ELSE default

\* v[key] for a string key
getitem(v, key) ==
    IF v.t = "object"
    THEN IF key \in DOMAIN v.members THEN v.members[key] ELSE Raised("KeyError")
    ELSE Raised("TypeError")

\* v[key] = x for a string key: item assignment exists on a dict only
setitem(v, key, x) ==
    IF v.t = "object"
    THEN JObj([k \in (DOMAIN v.members) \cup {key} |->
                   IF k = key THEN x ELSE v.members[k]])
    ELSE Raised("TypeError")

\* bool(v)
Truthy(v) ==
    CASE v.t = "null" -> FALSE
      [] v.t = "number" -> v.n # 0
      [] v.t = "string" -> v.s # << >>
      [] v.t = "array" -> v.items # << >>
      [] v.t = "object" -> DOMAIN v.members # {}
      [] OTHER -> TRUE

\* a bug of a slice: one element too many is kept
TakeOneMore(s, n) == SubSeq(s, 1, IF Len(s) < n + 1 THEN Len(s) ELSE n + 1)

\* s[:n] of a sequence
Take(s, n) == SubSeq(s, 1, IF Len(s) < n THEN Len(s) ELSE n)

\* v[:n]: a list or a string can be sliced, nothing else
Slice(v, n) ==
    CASE v.t = "array" -> JArr(Take(v.items, n))
      [] v.t = "string" -> JStr(Take(v.s, n))
      [] OTHER -> Raised("TypeError")

\* the elements of a finite set, in some order
RECURSIVE SetToSeq(_)
SetToSeq(S) ==
    IF S = {} THEN << >>
    ELSE LET x == CHOOSE y \in S : TRUE IN << x >> \o SetToSeq(S \ {x})

\* the list of the elements "for x in v" visits (a dict gives its keys), or the
\* TypeError of a value that is not iterable
Iter(v) ==
    CASE v.t = "array" -> v
      [] v.t = "string" -> JArr([k \in 1..Len(v.s) |-> JStr(<< v.s[k] >>)])
      [] v.t = "object" ->
            LET keys == SetToSeq(DOMAIN v.members)
            IN  JArr([k \in 1..Len(keys) |-> JStr(<< keys[k] >>)])
      [] OTHER -> Raised("TypeError")

\* v[k1][k2]... along a path of string keys
RECURSIVE Path(_, _)
Path(v, keys) ==
    IF keys = << >> THEN v
    ELSE LET x == getitem(v, Head(keys))
         IN  IF IsRaised(x) THEN x ELSE Path(x, Tail(keys))

\* s is a prefix of u
IsPrefix(s, u) == Len(s) <= Len(u) /\ s = SubSeq(u, 1, Len(s))

(***************************************************************************)
(* What the three remote services may answer                               *)
(***************************************************************************)
\* the fields a web search result item may carry
ItemKinds == {"full", "nolink", "nosnippet"}

ItemFields(kind) ==
    CASE kind = "full" -> {"title", "snippet", "link"}
      [] kind = "nolink" -> {"title", "snippet"}
      [] kind = "nosnippet" -> {"title", "link"}

\* the i-th result item of a web search response
WebItem(i, kind) == JObj([k \in ItemFields(kind) |-> JStr(<< k, ToString(i) >>)])

WebItemLists ==
    UNION { { [i \in 1..n |-> WebItem(i, kinds[i])] : kinds \in [1..n -> ItemKinds] }
            : n \in 0..MaxItems }

\* an error body of a provider: a JSON object without "items"
ErrorBody == JObj([k \in {"error"} |-> JNum(403)])

\* requests.get raises, resp.json() raises, or resp.json() is some JSON value
WebResponses ==
    { Raised("ConnectionError"), Raised("JSONDecodeError"), JArr(<< >>), ErrorBody }
    \cup { JObj([k \in {"items"} |-> JArr(l)]) : l \in WebItemLists }

VideoKinds == {"ok", "novideoid"}

\* the i-th result item of the c-th video search of a request
VideoItem(c, i, kind) ==
    JObj([k \in {"id", "snippet"} |->
        IF k = "id"
        THEN JObj([f \in (IF kind = "ok" THEN {"videoId"} ELSE {"channelId"}) |->
                      JStr(<< "v", ToString(c), ToString(i) >>)])
        ELSE JObj([f \in {"title", "thumbnails", "channelTitle"} |->
                      IF f = "thumbnails"
                      THEN JObj([m \in {"medium"} |->
                               JObj([u \in {"url"} |->
                                   JStr(<< "thumb", ToString(c), ToString(i) >>)])])
                      ELSE JStr(<< f, ToString(c), ToString(i) >>)])])

VideoItemLists(c) ==
    UNION { { [i \in 1..n |-> VideoItem(c, i, kinds[i])] : kinds \in [1..n -> VideoKinds] }
            : n \in 0..MaxVideos }

VideoResponses(c) ==
    { Raised("ConnectionError"), ErrorBody }
    \cup { JObj([k \in {"items"} |-> JArr(l)]) : l \in VideoItemLists(c) }

\* the k-th technology name of a model's "stack"
Tech(k) == JStr(<< "tech", ToString(k) >>)

SomeList == JArr(<< JStr(<< "x" >>) >>)

\* the JSON documents a model answer may hold: the source text (one chunk, free
\* of fences and of outer white space) and the value json.loads gives for it
Docs ==
    { [src |-> "[]", val |-> JArr(<< >>)],
      [src |-> "7", val |-> JNum(7)],
      [src |-> "{}", val |-> EmptyObj],
      [src |-> "{original,variants}",
       val |-> JObj([k \in {"original", "variants"} |->
                  IF k = "original"
                  THEN JObj([f \in {"novelty_score", "complexity_score",
                                    "feasibility_score", "verdict", "reason"} |->
                                IF f = "verdict" THEN JStr(<< "Unique" >>)
                                ELSE IF f = "reason" THEN JStr(<< "because" >>)
                                ELSE JNum(70)])
                  ELSE SomeList])],
      [src |-> "{stack:7,roadmap}",
       val |-> JObj([k \in {"stack", "roadmap"} |->
                  IF k = "stack" THEN JNum(7) ELSE SomeList])],
      [src |-> "{roadmap}", val |-> JObj([k \in {"roadmap"} |-> SomeList])],
      [src |-> "{suggestions}", val |-> JObj([k \in {"suggestions"} |-> SomeList])],
      [src |-> "{questions}", val |-> JObj([k \in {"questions"} |-> SomeList])] }
    \cup { [src |-> "{stack:" \o ToString(n) \o ",roadmap}",
            val |-> JObj([k \in {"stack", "roadmap"} |->
                       IF k = "stack" THEN JArr([j \in 1..n |-> Tech(j)])
                       ELSE SomeList])] : n \in 0..MaxStack }

\* the raw text of a model answer: a document bare or inside a json fence, or
\* text that is no JSON at all
ModelTexts ==
    { << d.src >> : d \in Docs }
    \cup { FenceJson \o << "\n", d.src, "\n" >> \o Fence : d \in Docs }
    \cup { << >>, << "S", "o", "r", "r", "y" >> }

\* generate_content raises; or answers an object whose .text raises (a blocked
\* answer); or answers an object with a text
ModelResponses ==
    { [t |-> "response", kind |-> k, text |-> << >>] : k \in {"raise", "notext"} }
    \cup { [t |-> "response", kind |-> "text", text |-> x] : x \in ModelTexts }

\* json.loads(s)
json_loads(s) ==
    LET core == Strip(s)
    IN  IF \E d \in Docs : core = << d.src >>
        THEN (CHOOSE d \in Docs : core = << d.src >>).val
        ELSE Raised("JSONDecodeError")

\* res.text
ResText(res) ==
    IF res.kind = "notext" THEN Raised("ValueError") ELSE JStr(res.text)

(***************************************************************************)
(* main.py: constants and helper functions                                 *)
(***************************************************************************)
\* num_results of the web search of /validate
ValidateNumResults == 5
\* valid_evidence[:4]
EvidenceLimit == 4
\* data['stack'][:2]
StackTerms == 2
\* 'maxResults': 2
YoutubeMaxResults == 2
\* videos[:3]
TutorialLimit == 3

\* one outbound HTTP or model call, as logged per request
Call(api, arg, q) == [api |-> api, arg |-> arg, q |-> q]

\* raise HTTPException(status_code=status, detail=detail)
HTTPException(status, detail) ==
    [t |-> "raised", exc |-> "HTTPException", status |-> status, detail |-> detail]

\* "except Exception as e: raise HTTPException(500, 'Server Error')" around a
\* handler body: HTTPException is an Exception, so one raised inside is replaced too
except_Exception(r) ==
    IF IsRaised(r) THEN HTTPException(500, "Server Error") ELSE r

\* what the framework sends for a handler's outcome: the returned value with 200,
\* an HTTPException's status and detail, or 500 for any other exception
Respond(r) ==
    IF ~IsRaised(r) THEN [status |-> 200, detail |-> "", body |-> r]
    ELSE IF r.exc = "HTTPException"
         THEN [status |-> r.status, detail |-> r.detail, body |-> JNull]
         ELSE [status |-> 500, detail |-> "Internal Server Error", body |-> JNull]

\* a bug of google_search: the degraded flag is not consulted
google_search_ignores_mock(num_results, web) ==
    IF ~GOOGLE_SEARCH_KEY THEN [ret |-> JArr(<< >>), calls |-> << >>]
    ELSE [calls |-> << Call("customsearch", num_results, JNull) >>,
          ret |-> IF IsRaised(web) THEN JArr(<< >>)
                  ELSE LET it == dict_get(web, "items", JArr(<< >>))
                       IN  IF IsRaised(it) THEN JArr(<< >>) ELSE it]

\* google_search(query, num_results), the provider answering web
google_search(num_results, web) ==
    IF MOCK_MODE \/ ~GOOGLE_SEARCH_KEY THEN [ret |-> JArr(<< >>), calls |-> << >>]
    ELSE [calls |-> << Call("customsearch", num_results, JNull) >>,
          ret |-> IF IsRaised(web) THEN JArr(<< >>)
                  ELSE LET it == dict_get(web, "items", JArr(<< >>))
                       IN  IF IsRaised(it) THEN JArr(<< >>) ELSE it]

\* the dict search_youtube builds of one result item
FormatVideo(item) ==
    LET title == Path(item, << "snippet", "title" >>)
        thumb == Path(item, << "snippet", "thumbnails", "medium", "url" >>)
        vid == Path(item, << "id", "videoId" >>)
        channel == Path(item, << "snippet", "channelTitle" >>)
    IN  IF IsRaised(title) THEN title
        ELSE IF IsRaised(thumb) THEN thumb
        ELSE IF IsRaised(vid) THEN vid
        ELSE IF IsRaised(channel) THEN channel
        ELSE JObj([k \in {"title", "thumbnail", "link", "channel"} |->
                 CASE k = "title" -> title
                   [] k = "thumbnail" -> thumb
                   [] k = "link" ->
                        JStr(<< "https://www.youtube.com/watch?v=" >>
                             \o (IF vid.t = "string" THEN vid.s ELSE << "?" >>))
                   [] k = "channel" -> channel])

\* search_youtube(query), the provider answering yt: the list of videos
search_youtube(query, yt) ==
    IF MOCK_MODE \/ ~GOOGLE_SEARCH_KEY THEN [ret |-> << >>, calls |-> << >>]
    ELSE LET items == IF IsRaised(yt) THEN yt ELSE dict_get(yt, "items", JArr(<< >>))
             it == IF IsRaised(items) THEN items ELSE Iter(items)
             vids == IF IsRaised(it) THEN << >>
                     ELSE [k \in 1..Len(it.items) |-> FormatVideo(it.items[k])]
         IN  [calls |-> << Call("youtube", YoutubeMaxResults, query) >>,
              ret |-> IF IsRaised(it) \/ (\E k \in 1..Len(vids) : IsRaised(vids[k]))
                      THEN << >> ELSE vids]

\* a bug of generate_safe: a failed call is tried once more
generate_safe_retries(lines, ai) ==
    IF MOCK_MODE THEN [ret |-> JNull, calls |-> << >>]
    ELSE IF model = "unbound" THEN [ret |-> JNull, calls |-> << >>]
    ELSE [calls |-> IF ai.kind = "raise"
                    THEN << Call("generate_content", lines, JNull),
                            Call("generate_content", lines, JNull) >>
                    ELSE << Call("generate_content", lines, JNull) >>,
          ret |-> IF ai.kind = "raise" THEN JNull ELSE ai]

\* generate_safe(prompt), the model answering ai; lines is the number of evidence
\* lines the prompt carries
generate_safe(lines, ai) ==
    IF MOCK_MODE THEN [ret |-> JNull, calls |-> << >>]
    ELSE IF model = "unbound" THEN [ret |-> JNull, calls |-> << >>]
    ELSE [calls |-> << Call("generate_content", lines, JNull) >>,
          ret |-> IF ai.kind = "raise" THEN JNull ELSE ai]

\* json.loads(clean_json(res.text))
loads_clean(res) ==
    LET tx == ResText(res)
    IN  IF IsRaised(tx) THEN tx ELSE json_loads(clean_json(tx.s))

(***************************************************************************)
(* main.py: the four route handlers.  Each computes what the handler       *)
(* returns or raises (result), the outbound calls it made (calls), what    *)
(* google_search returned (fetched), the videos gathered (videos) and what *)
(* generate_safe returned (res).                                           *)
(***************************************************************************)
Outcome(result, calls, fetched, videos, res) ==
    [result |-> result, calls |-> calls, fetched |-> fetched,
     videos |-> videos, res |-> res]

\* the fallback data of /validate
ValidateFallback ==
    JObj([k \in {"original", "variants"} |->
        IF k = "original"
        THEN JObj([f \in {"novelty_score", "complexity_score", "feasibility_score",
                          "verdict", "reason"} |->
                      IF f = "verdict" THEN JStr(<< "Error" >>)
                      ELSE IF f = "reason" THEN JStr(<< "AI Failed" >>)
                      ELSE JNum(0)])
        ELSE JArr(<< >>)])

\* the fallback data of /suggest
SuggestFallback == JObj([k \in {"suggestions"} |-> JArr(<< >>)])

\* [f"- {i['title']}: {i['snippet']}" for i in tech_search]: the (title, snippet)
\* pairs of the lines, or the exception of the first item that lacks one
evidence_text(tech_search) ==
    LET it == Iter(tech_search)
    IN  IF IsRaised(it) THEN it
        ELSE LET n == Len(it.items)
                 Line(k) ==
                     LET ti == getitem(it.items[k], "title")
                         sn == getitem(it.items[k], "snippet")
                     IN  IF IsRaised(ti) THEN ti
                         ELSE IF IsRaised(sn) THEN sn
                         ELSE JArr(<< ti, sn >>)
                 bad == { k \in 1..n : IsRaised(Line(k)) }
             IN  IF bad # {}
                 THEN Line(CHOOSE k \in bad : \A j \in bad : k <= j)
                 ELSE JArr([k \in 1..n |-> Line(k)])

\* [{"title": i['title'], "link": i['link']} for i in tech_search
\*  if 'title' in i and 'link' in i]
RECURSIVE valid_evidence(_)
valid_evidence(items) ==
    IF items = << >> THEN << >>
    ELSE LET i == Head(items)
         IN  (IF HasKey(i, "title") /\ HasKey(i, "link")
              THEN << JObj([k \in {"title", "link"} |-> i.members[k]]) >>
              ELSE << >>)
             \o valid_evidence(Tail(items))

\* api_validate
api_validate(web, ai) ==
    LET gs == google_search(ValidateNumResults, web)
        tech_search == gs.ret
        lines == evidence_text(tech_search)
    IN  IF IsRaised(lines)
        THEN Outcome(lines, gs.calls, tech_search, << >>, JNull)
        ELSE
        LET g == generate_safe(Len(lines.items), ai)
            res == g.ret
            parsed == IF Truthy(res) THEN loads_clean(res) ELSE Raised("skipped")
            data == IF IsRaised(parsed) THEN ValidateFallback ELSE parsed
            evidence == Take(valid_evidence(Iter(tech_search).items), EvidenceLimit)
            out == setitem(data, "evidence", JArr(evidence))
        IN  Outcome(out, gs.calls \o g.calls, tech_search, << >>, res)

\* the video searches of /roadmap, one per stack term, in order
RECURSIVE SearchAll(_, _)
SearchAll(techs, yts) ==
    IF techs = << >> THEN [ret |-> << >>, calls |-> << >>]
    ELSE LET h == search_youtube(Head(techs), Head(yts))
             r == SearchAll(Tail(techs), Tail(yts))
         IN  [ret |-> h.ret \o r.ret, calls |-> h.calls \o r.calls]

\* the body of api_roadmap's try block
roadmap_try(ai, yts) ==
    LET g == generate_safe(0, ai)
        res == g.ret
    IN  IF ~Truthy(res)
        THEN Outcome(HTTPException(500, "AI Failed"), g.calls, JNull, << >>, res)
        ELSE
        LET data == loads_clean(res)
            stack == IF IsRaised(data) THEN data ELSE dict_get(data, "stack", JNull)
        IN  IF IsRaised(stack) THEN Outcome(stack, g.calls, JNull, << >>, res)
            ELSE IF ~Truthy(stack)
            THEN Outcome(setitem(data, "tutorials", JArr(<< >>)),
                         g.calls, JNull, << >>, res)
            ELSE
            LET sl == Slice(getitem(data, "stack"), StackTerms)
                techs == IF IsRaised(sl) THEN sl ELSE Iter(sl)
            IN  IF IsRaised(techs) THEN Outcome(techs, g.calls, JNull, << >>, res)
                ELSE
                LET ys == SearchAll(techs.items, yts)
                IN  Outcome(setitem(data, "tutorials",
                                    JArr(Take(ys.ret, TutorialLimit))),
                            g.calls \o ys.calls, JNull, ys.ret, res)

\* api_roadmap
api_roadmap(ai, yts) ==
    LET o == roadmap_try(ai, yts)
    IN  [o EXCEPT !.result = except_Exception(o.result)]

\* api_suggest
api_suggest(ai) ==
    LET g == generate_safe(0, ai)
        res == g.ret
        parsed == IF Truthy(res) THEN loads_clean(res) ELSE Raised("skipped")
        data == IF IsRaised(parsed) THEN SuggestFallback ELSE parsed
    IN  Outcome(except_Exception(data), g.calls, JNull, << >>, res)

\* the body of api_viva's try block
viva_try(ai) ==
    LET g == generate_safe(0, ai)
        res == g.ret
        parsed == IF Truthy(res) THEN loads_clean(res) ELSE Raised("skipped")
    IN  Outcome(IF IsRaised(parsed) THEN HTTPException(500, "Viva Prep Failed")
                ELSE parsed,
                g.calls, JNull, << >>, res)

\* api_viva
api_viva(ai) ==
    LET o == viva_try(ai)
    IN  [o EXCEPT !.result = except_Exception(o.result)]

(***************************************************************************)
(* check_models.py: helper functions and its /validate handler             *)
(***************************************************************************)
\* 'num': 8 of search_google_accurate
AccurateNumResults == 8
\* evidence_list[:6]
EvidenceDigestLines == 6
\* sources[:5]
SourcesLimit == 5

\* key in v
py_in(key, v) ==
    CASE v.t = "object" -> key \in DOMAIN v.members
      [] v.t = "array" -> \E k \in 1..Len(v.items) : v.items[k] = JStr(<< key >>)
      [] v.t = "string" -> Contains(v.s, << key >>)
      [] OTHER -> FALSE

\* whether "key in v" raises: v is no container
py_in_raises(v) == v.t \notin {"object", "array", "string"}

\* search_google_accurate(query): the decoded body, or {} when the call fails
search_google_accurate(web) ==
    [calls |-> << Call("customsearch", AccurateNumResults, JNull) >>,
     ret |-> IF IsRaised(web) THEN EmptyObj ELSE web]

\* the mock answer of analyze_with_ai_cross_check
MockAnalysis ==
    JObj([k \in {"similarity_score", "novelty_score", "feasibility_score",
                 "pivot_suggestion", "feasibility_reason", "verdict"} |->
        CASE k = "similarity_score" -> JNum(85)
          [] k = "novelty_score" -> JNum(15)
          [] k = "feasibility_score" -> JNum(90)
          [] k = "pivot_suggestion" -> JStr(<< "Mock Data Pivot" >>)
          [] k = "feasibility_reason" -> JStr(<< "Mock Data" >>)
          [] k = "verdict" -> JStr(<< "Common" >>)])

\* the fallback of validate_project when the analysis gives nothing
AnalysisFallback ==
    JObj([k \in {"similarity_score", "novelty_score", "feasibility_score",
                 "pivot_suggestion", "feasibility_reason", "verdict"} |->
        CASE k = "pivot_suggestion" -> JStr(<< "AI Failed" >>)
          [] k = "feasibility_reason" -> JStr(<< "Check logs" >>)
          [] k = "verdict" -> JStr(<< "Error" >>)
          [] OTHER -> JNum(0)])

\* [{"title": item.get('title'), "link": item.get('link')} for item in
\* search_data['items']], or the exception of the first item that is no dict
sources_of(search_data) ==
    IF py_in_raises(search_data) THEN Raised("TypeError")
    ELSE IF ~py_in("items", search_data) THEN JArr(<< >>)
    ELSE LET its == getitem(search_data, "items")
             it == IF IsRaised(its) THEN its ELSE Iter(its)
         IN  IF IsRaised(it) THEN it
             ELSE IF \E k \in 1..Len(it.items) : it.items[k].t # "object"
             THEN Raised("AttributeError")
             ELSE JArr([k \in 1..Len(it.items) |->
                      JObj([f \in {"title", "link"} |->
                               dict_get(it.items[k], f, JNull)])])

\* analyze_with_ai_cross_check(abstract, search_results); search_results has
\* already passed sources_of
analyze_with_ai_cross_check(search_results, ai) ==
    IF MOCK_MODE THEN [ret |-> MockAnalysis, calls |-> << >>, res |-> JNull]
    ELSE LET n == Len(sources_of(search_results).items)
             g == generate_safe(IF n < EvidenceDigestLines THEN n
                                ELSE EvidenceDigestLines, ai)
             res == g.ret
             parsed == IF Truthy(res)
                       THEN LET tx == ResText(res)
                            IN  IF IsRaised(tx) THEN tx
                                ELSE json_loads(clean_json_response(tx.s))
                       ELSE Raised("skipped")
         IN  [ret |-> IF IsRaised(parsed) THEN JNull ELSE parsed,
              calls |-> g.calls, res |-> res]

\* the body validate_project returns for the analysis ai_result and the sources
validate_body(ai_result, sources) ==
    LET Get(key, default) == dict_get(ai_result, key, default)
    IN  IF ai_result.t # "object" THEN Raised("AttributeError")
        ELSE JObj([k \in {"metrics", "analysis", "sources"} |->
                 CASE k = "metrics" ->
                        JObj([f \in {"similarity", "novelty", "feasibility"} |->
                                 Get(f \o "_score", JNum(0))])
                   [] k = "analysis" ->
                        JObj([f \in {"pivot", "feasibility_reason", "verdict"} |->
                                 CASE f = "pivot" ->
                                        Get("pivot_suggestion", JStr(<< "N/A" >>))
                                   [] f = "feasibility_reason" ->
                                        Get("feasibility_reason", JStr(<< "N/A" >>))
                                   [] f = "verdict" ->
                                        Get("verdict", JStr(<< "Unknown" >>))])
                   [] k = "sources" -> JArr(Take(sources, SourcesLimit))])

\* validate_project
validate_project(web, ai) ==
    LET sg == search_google_accurate(web)
        search_data == sg.ret
        sources == sources_of(search_data)
    IN  IF IsRaised(sources)
        THEN Outcome(except_Exception(sources), sg.calls, search_data, << >>, JNull)
        ELSE
        LET an == analyze_with_ai_cross_check(search_data, ai)
            ai_result == IF Truthy(an.ret) THEN an.ret ELSE AnalysisFallback
        IN  Outcome(except_Exception(validate_body(ai_result, sources.items)),
                    sg.calls \o an.calls, search_data, << >>, an.res)

(***************************************************************************)
(* The model loaders (module-level code of main.py and check_models.py)    *)
(***************************************************************************)
\* a model name is text in chunks, split where the loaders' substring tests cut
DefaultModelName == << "gemini-", "1.5", "-", "flash" >>

Name25 == << "gemini-", "2.5", "-", "flash" >>

Name20 == << "gemini-", "2.0", "-", "flash" >>

Name20Exp == << "gemini-", "2.0", "-", "flash", "-exp" >>

\* MODEL_NAME = None
NoName == << >>

\* the models a list_models answer may name; gen: 'generateContent' is among its
\* supported_generation_methods
ModelPool ==
    { [name |-> << "models/" >> \o Name25, gen |-> TRUE],
      [name |-> << "models/" >> \o Name20 \o << "-001" >>, gen |-> TRUE],
      [name |-> << "models/", "gemini-", "pro" >>, gen |-> TRUE],
      [name |-> << "models/", "embedding-", "001" >>, gen |-> FALSE],
      [name |-> << "models/" >> \o Name25 \o << "-tts" >>, gen |-> FALSE] }

\* list_models raises, or answers some models in some order
Listings ==
    { [ok |-> FALSE, models |-> << >>] }
    \cup UNION { { [ok |-> TRUE, models |-> l] :
                     l \in { q \in [1..n -> ModelPool] :
                               \A i, j \in 1..n : i # j => q[i] # q[j] } }
                 : n \in 0..MaxModels }

\* [m.name for m in genai.list_models()
\*  if 'generateContent' in m.supported_generation_methods]
RECURSIVE available_models(_)
available_models(listed) ==
    IF listed = << >> THEN << >>
    ELSE (IF Head(listed).gen THEN << Head(listed).name >> ELSE << >>)
         \o available_models(Tail(listed))

\* a bug of the name selection of main.py: the preferred names are never looked for
main_select_never_prefers(listing) == DefaultModelName

\* main.py lines 42-48: the name selected once configure succeeded
main_select(listing) ==
    IF ~listing.ok THEN DefaultModelName
    ELSE LET avail == available_models(listing.models)
         IN  IF \E k \in 1..Len(avail) : Contains(avail[k], Name25) THEN Name25
             ELSE IF \E k \in 1..Len(avail) : Contains(avail[k], Name20)
             THEN Name20Exp
             ELSE DefaultModelName

\* main.py lines 23-54
main_loader(key, configureOk, listing, ctorOk) ==
    IF ~key
    THEN [MOCK_MODE |-> TRUE, MODEL_NAME |-> DefaultModelName, model |-> "unbound"]
    ELSE IF ~configureOk
    THEN [MOCK_MODE |-> TRUE, MODEL_NAME |-> DefaultModelName, model |-> "unbound"]
    ELSE IF ~ctorOk
    THEN [MOCK_MODE |-> TRUE, MODEL_NAME |-> main_select(listing), model |-> "unbound"]
    ELSE [MOCK_MODE |-> FALSE, MODEL_NAME |-> main_select(listing), model |-> "bound"]

\* check_models.py lines 37-41: the first listed name holding "flash", else the first
cm_select(avail) ==
    IF \E k \in 1..Len(avail) : Contains(avail[k], << "flash" >>)
    THEN avail[CHOOSE k \in 1..Len(avail) :
                   /\ Contains(avail[k], << "flash" >>)
                   /\ \A j \in 1..(k - 1) : ~Contains(avail[j], << "flash" >>)]
    ELSE avail[1]

\* check_models.py lines 23-52, once genai.configure returned
cm_loader(listing, ctorOk) ==
    IF ~listing.ok
    THEN [MOCK_MODE |-> TRUE, MODEL_NAME |-> NoName, model |-> "unbound"]
    ELSE LET avail == available_models(listing.models)
         IN  IF avail = << >>
             THEN [MOCK_MODE |-> TRUE, MODEL_NAME |-> NoName, model |-> "unbound"]
             ELSE IF ~ctorOk
             THEN [MOCK_MODE |-> TRUE, MODEL_NAME |-> cm_select(avail),
                   model |-> "unbound"]
             ELSE [MOCK_MODE |-> FALSE, MODEL_NAME |-> cm_select(avail),
                   model |-> "bound"]

(***************************************************************************)
(* State machine                                                           *)
(***************************************************************************)
NoStartup == [configure |-> "skipped", listing |-> [ok |-> FALSE, models |-> << >>],
              listed |-> FALSE, ctor |-> "skipped"]

NoRequest ==
    [route |-> "none", valid |-> TRUE, status |-> 0, detail |-> "", body |-> JNull,
     calls |-> << >>, fetched |-> JNull, videos |-> << >>, res |-> JNull]

\* the request record of a handler's outcome
Served(route, o) ==
    LET r == Respond(o.result)
    IN  [route |-> route, valid |-> TRUE, status |-> r.status, detail |-> r.detail,
         body |-> r.body, calls |-> o.calls, fetched |-> o.fetched,
         videos |-> o.videos, res |-> o.res]

\* a body that fails the request model (RequestModel, StackRequestModel,
\* ProjectRequest: abstract is required) is answered 422 before the handler runs
Rejected(route) ==
    [NoRequest EXCEPT !.route = route, !.valid = FALSE, !.status = 422,
                      !.detail = "Unprocessable Entity"]

CleanIdle == text = << >> /\ cleaned = [cj |-> << >>, cjr |-> << >>] /\ phase = "typing"

\* main.py after lines 18-23: the environment is read, MOCK_MODE = False
InitMain ==
    /\ program = "main"
    /\ pc = "startup"
    /\ GEMINI_API_KEY \in BOOLEAN
    /\ GOOGLE_SEARCH_KEY \in BOOLEAN
    /\ MOCK_MODE = FALSE
    /\ MODEL_NAME = NoName
    /\ model = "unbound"
    /\ startup = NoStartup
    /\ req = NoRequest

\* check_models.py after lines 13-23: the keys are literals, MODEL_NAME = None
InitCM ==
    /\ program = "check_models"
    /\ pc = "startup"
    /\ GEMINI_API_KEY = TRUE
    /\ GOOGLE_SEARCH_KEY = TRUE
    /\ MOCK_MODE = FALSE
    /\ MODEL_NAME = NoName
    /\ model = "unbound"
    /\ startup = NoStartup
    /\ req = NoRequest

Init == (InitMain \/ InitCM) /\ CleanIdle

\* main.py lines 26-54
LoadModelMain ==
    /\ program = "main" /\ pc = "startup"
    /\ \E configureOk \in BOOLEAN, listing \in Listings, ctorOk \in BOOLEAN :
         LET l == main_loader(GEMINI_API_KEY, configureOk, listing, ctorOk)
             ran == GEMINI_API_KEY
         IN  /\ MOCK_MODE' = l.MOCK_MODE
             /\ MODEL_NAME' = l.MODEL_NAME
             /\ model' = l.model
             /\ startup' =
                  [configure |-> IF ~ran THEN "skipped"
                                 ELSE IF configureOk THEN "ok" ELSE "raise",
                   listing |-> IF ran /\ configureOk THEN listing
                               ELSE NoStartup.listing,
                   listed |-> ran /\ configureOk,
                   ctor |-> IF ~(ran /\ configureOk) THEN "skipped"
                            ELSE IF ctorOk THEN "ok" ELSE "raise"]
    /\ pc' = "loaded"
    /\ UNCHANGED << program, GEMINI_API_KEY, GOOGLE_SEARCH_KEY, req >>
    /\ UNCHANGED cleanVars

\* check_models.py lines 25-52; genai.configure sits outside the try block, so its
\* exception ends the process
LoadModelCM ==
    /\ program = "check_models" /\ pc = "startup"
    /\ \E configureOk \in BOOLEAN, listing \in Listings, ctorOk \in BOOLEAN :
         LET l == cm_loader(listing, ctorOk)
             hasGen == listing.ok /\ available_models(listing.models) # << >>
         IN  IF ~configureOk
             THEN /\ pc' = "crashed"
                  /\ startup' = [NoStartup EXCEPT !.configure = "raise"]
                  /\ UNCHANGED << MOCK_MODE, MODEL_NAME, model >>
             ELSE /\ pc' = "loaded"
                  /\ MOCK_MODE' = l.MOCK_MODE
                  /\ MODEL_NAME' = l.MODEL_NAME
                  /\ model' = l.model
                  /\ startup' =
                       [configure |-> "ok", listing |-> listing, listed |-> TRUE,
                        ctor |-> IF ~hasGen THEN "skipped"
                                 ELSE IF ctorOk THEN "ok" ELSE "raise"]
    /\ UNCHANGED << program, GEMINI_API_KEY, GOOGLE_SEARCH_KEY, req >>
    /\ UNCHANGED cleanVars

\* uvicorn.run(app): the process starts to serve; what the loader met is history
Serve ==
    /\ pc = "loaded"
    /\ pc' = "serving"
    /\ startup' = NoStartup
    /\ UNCHANGED << program, GEMINI_API_KEY, GOOGLE_SEARCH_KEY, MOCK_MODE,
                    MODEL_NAME, model, req >>
    /\ UNCHANGED cleanVars

\* what no request handler assigns
Handled == << program, GEMINI_API_KEY, GOOGLE_SEARCH_KEY, MOCK_MODE,
              MODEL_NAME, model, startup >>

\* POST /validate of main.py
ApiValidate ==
    /\ program = "main" /\ pc = "serving"
    /\ \E valid \in BOOLEAN, web \in WebResponses, ai \in ModelResponses :
         req' = IF valid THEN Served("/validate", api_validate(web, ai))
                ELSE Rejected("/validate")
    /\ pc' = "responded"
    /\ UNCHANGED Handled
    /\ UNCHANGED cleanVars

\* POST /roadmap of main.py
ApiRoadmap ==
    /\ program = "main" /\ pc = "serving"
    /\ \E valid \in BOOLEAN, ai \in ModelResponses,
          y1 \in VideoResponses(1), y2 \in VideoResponses(2) :
         req' = IF valid THEN Served("/roadmap", api_roadmap(ai, << y1, y2 >>))
                ELSE Rejected("/roadmap")
    /\ pc' = "responded"
    /\ UNCHANGED Handled
    /\ UNCHANGED cleanVars

\* POST /suggest of main.py
ApiSuggest ==
    /\ program = "main" /\ pc = "serving"
    /\ \E valid \in BOOLEAN, ai \in ModelResponses :
         req' = IF valid THEN Served("/suggest", api_suggest(ai))
                ELSE Rejected("/suggest")
    /\ pc' = "responded"
    /\ UNCHANGED Handled
    /\ UNCHANGED cleanVars

\* POST /viva of main.py
ApiViva ==
    /\ program = "main" /\ pc = "serving"
    /\ \E valid \in BOOLEAN, ai \in ModelResponses :
         req' = IF valid THEN Served("/viva", api_viva(ai))
                ELSE Rejected("/viva")
    /\ pc' = "responded"
    /\ UNCHANGED Handled
    /\ UNCHANGED cleanVars

\* POST /validate of check_models.py
ValidateProject ==
    /\ program = "check_models" /\ pc = "serving"
    /\ \E valid \in BOOLEAN, web \in WebResponses, ai \in ModelResponses :
         req' = IF valid THEN Served("/validate", validate_project(web, ai))
                ELSE Rejected("/validate")
    /\ pc' = "responded"
    /\ UNCHANGED Handled
    /\ UNCHANGED cleanVars

\* the response is sent; nothing of the request outlives it
Done ==
    /\ pc = "responded"
    /\ pc' = "serving"
    /\ req' = NoRequest
    /\ UNCHANGED Handled
    /\ UNCHANGED cleanVars

Next ==
    \/ LoadModelMain
    \/ LoadModelCM
    \/ Serve
    \/ ApiValidate
    \/ ApiRoadmap
    \/ ApiSuggest
    \/ ApiViva
    \/ ValidateProject
    \/ Done

Spec == Init /\ [][Next]_vars

(***************************************************************************)
(* Fence stripping on its own: a string is typed chunk by chunk, then both *)
(* strippers are applied to it.                                            *)
(***************************************************************************)
Chunks == { << Tick >>, << "j", "s", "o", "n" >>, << " " >>, << "{" >> }

InitClean ==
    /\ InitMain /\ GEMINI_API_KEY = FALSE /\ GOOGLE_SEARCH_KEY = FALSE
    /\ CleanIdle

TypeChunk ==
    /\ phase = "typing"
    /\ \E c \in Chunks :
         /\ Len(text) + Len(c) <= MaxLen
         /\ text' = text \o c
    /\ UNCHANGED << cleaned, phase >>
    /\ UNCHANGED serviceVars

Clean ==
    /\ phase = "typing"
    /\ cleaned' = [cj |-> clean_json(text), cjr |-> clean_json_response(text)]
    /\ phase' = "cleaned"
    /\ UNCHANGED text
    /\ UNCHANGED serviceVars

NextClean == TypeChunk \/ Clean

SpecClean == InitClean /\ [][NextClean]_vars

(***************************************************************************)
(* Properties                                                              *)
(***************************************************************************)
\* a handler of main.py has run and its response is on its way out
MainHandled == pc = "responded" /\ program = "main" /\ req.valid

\* the generate_content calls among the outbound calls of the request
ModelCalls == { k \in 1..Len(req.calls) : req.calls[k].api = "generate_content" }

VideoCalls == { k \in 1..Len(req.calls) : req.calls[k].api = "youtube" }

WebCalls == { k \in 1..Len(req.calls) : req.calls[k].api = "customsearch" }

\* generate_safe returned nothing (model disabled, or the call raised)
ModelGaveNothing == req.res = JNull

\* generate_safe returned an answer whose text does not parse as JSON
ModelUnparseable == req.res # JNull /\ IsRaised(loads_clean(req.res))

\* the keys of the success body of each route, as the table of routes lists them
RowKeys(route) ==
    CASE route = "/validate" -> {"original", "variants", "evidence"}
      [] route = "/roadmap" -> {"stack", "roadmap", "tutorials"}
      [] route = "/suggest" -> {"suggestions"}
      [] route = "/viva" -> {"questions"}

\* C1: /validate and /suggest always answer 200; /roadmap and /viva answer 500
\* only when the model call gave nothing or its text does not parse as JSON, and
\* 200 in every other case.  Stated for the requests that reach a handler.
C1_StatusContract ==
    MainHandled =>
        /\ req.route \in {"/validate", "/suggest"} => req.status = 200
        /\ req.route \in {"/roadmap", "/viva"} =>
              \/ req.status = 200
              \/ req.status = 500 /\ (ModelGaveNothing \/ ModelUnparseable)

\* C2: a 200 body is an object that holds every key of its route's table row,
\* whatever JSON the model answered.
C2_ResponseShape ==
    MainHandled /\ req.status = 200 =>
        /\ req.body.t = "object"
        /\ RowKeys(req.route) \subseteq DOMAIN req.body.members

\* C3: with MOCK_MODE set no generate_content call is made and every route gives
\* its documented fallback: /validate the zeroed "Error"/"AI Failed" original with
\* empty variants and evidence, /suggest {"suggestions": []}, /roadmap the 500
\* "Server Error" and /viva the 500 "Viva Prep Failed" of the table of routes.
C3_DegradedFallbacks ==
    MainHandled /\ MOCK_MODE =>
        /\ ModelCalls = {}
        /\ req.route = "/validate" =>
              /\ req.status = 200
              /\ req.body = setitem(ValidateFallback, "evidence", JArr(<< >>))
        /\ req.route = "/suggest" =>
              req.status = 200 /\ req.body = SuggestFallback
        /\ req.route = "/roadmap" =>
              req.status = 500 /\ req.detail = "Server Error"
        /\ req.route = "/viva" =>
              req.status = 500 /\ req.detail = "Viva Prep Failed"

\* the part of C3 the code keeps: everything but the detail string of /viva
DegradedFallbacksButVivaDetail ==
    MainHandled /\ MOCK_MODE =>
        /\ ModelCalls = {}
        /\ req.route = "/validate" =>
              /\ req.status = 200
              /\ req.body = setitem(ValidateFallback, "evidence", JArr(<< >>))
        /\ req.route = "/suggest" =>
              req.status = 200 /\ req.body = SuggestFallback
        /\ req.route \in {"/roadmap", "/viva"} => req.status = 500

\* the evidence list of a /validate body, the tutorials list of a /roadmap body
Evidence == req.body.members["evidence"].items

Tutorials == req.body.members["tutorials"].items

\* the {title, link} record of a fetched item that has both
Projects(e, item) ==
    /\ HasKey(item, "title") /\ HasKey(item, "link")
    /\ e = JObj([k \in {"title", "link"} |-> item.members[k]])

\* the positions of the fetched items that have both a title and a link
Linked == { k \in 1..Len(req.fetched.items) :
              HasKey(req.fetched.items[k], "title")
              /\ HasKey(req.fetched.items[k], "link") }

\* every video search asks for at most 2 results, one search per stack term and
\* at most StackTerms of them
VideoRequestsBounded ==
    /\ \A k \in VideoCalls : req.calls[k].arg <= 2
    /\ Cardinality(VideoCalls) <= StackTerms

\* C4 as claimed: at most 4 evidence items and at most 3 tutorials, at most 2
\* results asked per video search, and the evidence (the tutorials) returned is a
\* prefix, in provider order, of the items fetched.
C4_PrefixOfFetched ==
    MainHandled /\ req.status = 200 =>
        /\ VideoRequestsBounded
        /\ req.route = "/validate" =>
              /\ Len(Evidence) <= 4
              /\ Len(Evidence) <= Len(req.fetched.items)
              /\ \A k \in 1..Len(Evidence) :
                     Projects(Evidence[k], req.fetched.items[k])
        /\ req.route = "/roadmap" =>
              Len(Tutorials) <= 3 /\ IsPrefix(Tutorials, req.videos)

\* C4 as amended: the evidence returned is, in provider order, the first (at most
\* 4) of the fetched items that have both a title and a link, the items without
\* one being skipped; the tutorials are the first (at most 3) of the videos the
\* searches returned, in order.
C4_Truncation ==
    MainHandled /\ req.status = 200 =>
        /\ VideoRequestsBounded
        /\ req.route = "/validate" =>
              /\ Len(Evidence) <= 4
              /\ Len(Evidence) = (IF Cardinality(Linked) < 4
                                  THEN Cardinality(Linked) ELSE 4)
              /\ \A j \in 1..Len(Evidence) :
                     \E k \in Linked :
                         /\ Cardinality({ i \in Linked : i < k }) = j - 1
                         /\ Projects(Evidence[j], req.fetched.items[k])
        /\ req.route = "/roadmap" =>
              /\ Len(Tutorials) <= 3
              /\ Len(Tutorials) = (IF Len(req.videos) < 3 THEN Len(req.videos) ELSE 3)
              /\ IsPrefix(Tutorials, req.videos)

\* C4's case: more linked items were fetched than the 4 that are returned
C4_Witness ==
    /\ MainHandled /\ req.status = 200 /\ req.route = "/validate"
    /\ Cardinality(Linked) > 4
    /\ Len(Evidence) = 4

\* no "```" (hence no "```json") occurs in s
FenceFree(s) == ~Contains(s, Fence)

\* s neither starts nor ends with white space
Unpadded(s) == s = << >> \/ (~IsSpace(s[1]) /\ ~IsSpace(s[Len(s)]))

\* u is s without some white space at its two ends
TrimOf(u, s) ==
    \E i \in 0..Len(s), j \in 0..Len(s) :
        /\ i + j <= Len(s)
        /\ u = SubSeq(s, i + 1, Len(s) - j)
        /\ \A k \in (1..i) \cup ((Len(s) - j + 1)..Len(s)) : IsSpace(s[k])

\* C5 as claimed: stripping twice gives what stripping once gives, and a string
\* without a fence is returned as it is.
C5_NoOpOnFenceFree ==
    phase = "cleaned" =>
        /\ clean_json(cleaned.cj) = cleaned.cj
        /\ clean_json_response(cleaned.cjr) = cleaned.cjr
        /\ FenceFree(text) => cleaned.cj = text /\ cleaned.cjr = text

\* C5 as amended: stripping twice gives what stripping once gives; the result has
\* no fence and no outer white space; a string without a fence loses its outer
\* white space and nothing else, so it is returned as it is exactly when it has
\* none.
C5_Idempotent ==
    phase = "cleaned" =>
        /\ clean_json(cleaned.cj) = cleaned.cj
        /\ clean_json_response(cleaned.cjr) = cleaned.cjr
        /\ FenceFree(cleaned.cj) /\ Unpadded(cleaned.cj)
        /\ FenceFree(cleaned.cjr) /\ Unpadded(cleaned.cjr)
        /\ FenceFree(text) =>
              /\ TrimOf(cleaned.cj, text) /\ TrimOf(cleaned.cjr, text)
              /\ (cleaned.cj = text) = Unpadded(text)
              /\ (cleaned.cjr = text) = Unpadded(text)

\* C5's case: a fenced document was stripped to its content
C5_Witness ==
    /\ phase = "cleaned"
    /\ Contains(text, FenceJson)
    /\ cleaned.cj = << "{" >>
    /\ cleaned.cjr = << "{" >>

\* C6: when /viva has no parsed result (the model gave nothing, or its text does
\* not parse), the response is a 500 whose detail is "Viva Prep Failed".
C6_VivaPrepFailed ==
    MainHandled /\ req.route = "/viva" /\ (ModelGaveNothing \/ ModelUnparseable) =>
        req.status = 500 /\ req.detail = "Viva Prep Failed"

\* the loader is through, and what it met is still on record
Loaded == pc = "loaded"

\* some step of the start-up failed: the credential is missing, configure raised,
\* list_models raised, no listed model generates content, or the model handle
\* could not be built
StartupFailed ==
    \/ ~GEMINI_API_KEY
    \/ startup.configure = "raise"
    \/ startup.listed /\ ~startup.listing.ok
    \/ startup.listed /\ startup.listing.ok
          /\ available_models(startup.listing.models) = << >>
    \/ startup.ctor = "raise"

\* the names the listing offers for content generation
Offered ==
    IF startup.listed /\ startup.listing.ok
    THEN { m.name : m \in { startup.listing.models[k] :
                              k \in { i \in 1..Len(startup.listing.models) :
                                        startup.listing.models[i].gen } } }
    ELSE {}

\* a preferred name is offered: "gemini-2.5-flash" or "gemini-2.0-flash" to
\* main.py, any name holding "flash" to check_models.py
PreferredOffered ==
    IF program = "main"
    THEN \E n \in Offered : Contains(n, Name25) \/ Contains(n, Name20)
    ELSE \E n \in Offered : Contains(n, << "flash" >>)

\* C7 as claimed: any start-up failure leaves the flag set; without a failure a
\* preferred name among the listed models is selected, else the default name.
\* While the flag is set no model call is made.
C7_AnyFailureDegrades ==
    /\ Loaded =>
          /\ StartupFailed => MOCK_MODE
          /\ ~StartupFailed =>
                IF PreferredOffered
                THEN MODEL_NAME # DefaultModelName
                     /\ Contains(MODEL_NAME, << "flash" >>)
                ELSE MODEL_NAME = DefaultModelName
    /\ pc = "responded" /\ MOCK_MODE => ModelCalls = {}

\* C7 as amended.  main.py: the flag is set exactly when the credential is
\* missing or configure or the construction of the model handle raised; a failed
\* or empty listing leaves it unset and the default name selected; a listed
\* "gemini-2.5-flash" selects "gemini-2.5-flash", else a listed "gemini-2.0-flash"
\* selects "gemini-2.0-flash-exp", else the default.  check_models.py: the flag is
\* set exactly when list_models raised, no listed model generates content or the
\* construction raised; otherwise the first offered name holding "flash" is
\* selected, else the first offered name.  While the flag is set no model call is
\* made.
C7_LoaderOutcome ==
    /\ Loaded /\ program = "main" =>
          /\ MOCK_MODE = (\/ ~GEMINI_API_KEY
                          \/ startup.configure = "raise"
                          \/ startup.ctor = "raise")
          /\ ~MOCK_MODE =>
                /\ model = "bound"
                /\ MODEL_NAME =
                     (IF \E n \in Offered : Contains(n, Name25) THEN Name25
                      ELSE IF \E n \in Offered : Contains(n, Name20) THEN Name20Exp
                      ELSE DefaultModelName)
                /\ (~startup.listing.ok \/ Offered = {}) =>
                      MODEL_NAME = DefaultModelName
    /\ Loaded /\ program = "check_models" =>
          /\ MOCK_MODE = (\/ ~startup.listing.ok
                          \/ Offered = {}
                          \/ startup.ctor = "raise")
          /\ ~MOCK_MODE =>
                /\ model = "bound"
                /\ MODEL_NAME \in Offered
                /\ (\E n \in Offered : Contains(n, << "flash" >>)) =>
                      Contains(MODEL_NAME, << "flash" >>)
                /\ \E k \in 1..Len(startup.listing.models) :
                      /\ startup.listing.models[k].name = MODEL_NAME
                      /\ \A j \in 1..(k - 1) :
                            LET m == startup.listing.models[j]
                            IN  m.gen =>
                                  /\ ~Contains(m.name, << "flash" >>)
                                  /\ Contains(MODEL_NAME, << "flash" >>)
    /\ pc = "responded" /\ MOCK_MODE => ModelCalls = {}

\* C7's case: main.py met a failing list_models and went on undegraded
C7_Witness ==
    /\ Loaded /\ program = "main"
    /\ startup.listed /\ ~startup.listing.ok
    /\ ~MOCK_MODE /\ MODEL_NAME = DefaultModelName

\* C8: when a fetched web result item is malformed (it lacks the title or the
\* snippet), the request still completes normally, with empty evidence.
C8_FetchFailuresAbsorbed ==
    /\ MainHandled /\ req.route = "/validate"
    /\ \E k \in 1..Len(req.fetched.items) :
          ~HasKey(req.fetched.items[k], "title")
          \/ ~HasKey(req.fetched.items[k], "snippet")
    => req.status = 200 /\ Evidence = << >>

\* C9 as claimed: a request makes at most two outbound calls, at most one of them
\* a model call.
C9_AtMostTwoCalls ==
    pc = "responded" =>
        Len(req.calls) <= 2 /\ Cardinality(ModelCalls) <= 1

\* C9 as amended: a request makes at most one model call and at most three
\* outbound calls: /validate one web search and one model call, /suggest and
\* /viva one model call, /roadmap one model call and one video search per stack
\* term, at most two.
C9_CallBudget ==
    pc = "responded" =>
        /\ Cardinality(ModelCalls) <= 1
        /\ Len(req.calls) <= 3
        /\ req.route = "/validate" =>
              Cardinality(WebCalls) <= 1 /\ VideoCalls = {} /\ Len(req.calls) <= 2
        /\ req.route \in {"/suggest", "/viva"} =>
              WebCalls = {} /\ VideoCalls = {} /\ Len(req.calls) <= 1
        /\ req.route = "/roadmap" =>
              WebCalls = {} /\ Cardinality(VideoCalls) <= 2

\* C9's case: a /roadmap request that made three outbound calls
C9_Witness ==
    /\ MainHandled /\ req.route = "/roadmap" /\ req.status = 200
    /\ Len(req.calls) = 3
    /\ Cardinality(ModelCalls) = 1

\* C10: MOCK_MODE is assigned by the start-up only; while it is set a request of
\* main.py makes no outbound call of any kind, and /validate answers 200 with an
\* empty evidence list even when the search key is configured.
C10_DegradedIsSilent ==
    /\ [](MainHandled /\ MOCK_MODE =>
            /\ req.calls = << >>
            /\ req.route = "/validate" => req.status = 200 /\ Evidence = << >>)
    /\ [][pc # "startup" => MOCK_MODE' = MOCK_MODE]_vars

\* C10's case: a degraded /validate although the search key is configured
C10_Witness ==
    /\ MainHandled /\ MOCK_MODE /\ GOOGLE_SEARCH_KEY
    /\ req.route = "/validate" /\ req.status = 200

====
